---- MODULE Spec2Model ----
(***************************************************************************)
(* Model of analyze_results.py: the benchmark-log analysis pipeline        *)
(*   parse_results -> calculate_speedup -> calculate_efficiency ->         *)
(*   generate_report -> write PERFORMANCE.md -> generate_graphs            *)
(* run by main().                                                          *)
(*                                                                         *)
(* The log text is a sequence of tokens.  A token is one of                *)
(*   kind "threads": the text "Threads: <digits>"                          *)
(*   kind "time":    the text "Execution Time: <digits><unit>", where      *)
(*                   <digits> is a run of the characters 0-9 and '.', and  *)
(*                   <unit> is "ms", "us" (the micro sign followed by s),  *)
(*                   "s", or "" when no unit follows the run               *)
(*   kind "text":    any other text                                        *)
(* <digits> is kept character by character, so that int() and float() are  *)
(* modelled by what they do to the characters.                             *)
(*                                                                         *)
(* A Python float is modelled by the exact rational [n, d] in lowest       *)
(* terms; rounding of IEEE doubles is not modelled.                        *)
(***************************************************************************)
EXTENDS Integers, Sequences, FiniteSets, TLC

VARIABLES content, pc, matches, threads, times, speedups, efficiencies,
          report, perfFile, pngFiles, stdout, exitStatus, exception, calls

vars == <<content, pc, matches, threads, times, speedups, efficiencies,
          report, perfFile, pngFiles, stdout, exitStatus, exception, calls>>

(* Longest log, in tokens, of the logs built from the core alphabet. *)
MaxLen == 4

----------------------------------------------------------------------------
(* Log tokens *)

ThreadsTok(d) == [kind |-> "threads", digits |-> d, unit |-> ""]

TimeTok(d, u) == [kind |-> "time", digits |-> d, unit |-> u]

TextTok == [kind |-> "text", digits |-> <<>>, unit |-> ""]

ThreadStrings == {<<"0">>, <<"1">>, <<"2">>}

Units == {"ms", "us", "s"}

NumStrings ==
  { <<"0">>, <<"3">>, <<"1", ".">>, <<".", "5">>, <<"1", ".", "2">>,
    <<"7", "5", "0", "0", "0", "0">>, <<"1", ".", "2", ".", "3">>, <<".">> }

CoreAlphabet ==
  { ThreadsTok(d) : d \in ThreadStrings }
  \cup { TimeTok(<<"0">>, "ms"), TimeTok(<<"2">>, "ms"), TimeTok(<<"3">>, "ms"),
         TimeTok(<<"6">>, "ms"), TimeTok(<<"3">>, ""),
         TimeTok(<<"1", ".", "2", ".", "3">>, "ms") }
  \cup { TextTok }

SeqsUpTo(S, n) == UNION { [1..k -> S] : k \in 0..n }

CoreLogs == SeqsUpTo(CoreAlphabet, MaxLen)

UnitLogs ==
  { <<ThreadsTok(<<"1">>), TimeTok(d, u)>> : d \in NumStrings, u \in Units \cup {""} }

Logs == CoreLogs \cup UnitLogs

----------------------------------------------------------------------------
(* Numbers *)

RECURSIVE GCD(_, _)
GCD(a, b) == IF b = 0 THEN a ELSE GCD(b, a % b)

Rat(n, d) == LET g == GCD(n, d) IN [n |-> n \div g, d |-> d \div g]

RatMul(a, b) == Rat(a.n * b.n, a.d * b.d)

RatDiv(a, b) == Rat(a.n * b.d, a.d * b.n)

RatLess(a, b) == a.n * b.d < b.n * a.d

FromInt(k) == [n |-> k, d |-> 1]

DigitVal(c) ==
  CASE c = "0" -> 0 [] c = "1" -> 1 [] c = "2" -> 2 [] c = "3" -> 3
    [] c = "4" -> 4 [] c = "5" -> 5 [] c = "6" -> 6 [] c = "7" -> 7
    [] c = "8" -> 8 [] c = "9" -> 9

RECURSIVE Pow10(_)
Pow10(k) == IF k = 0 THEN 1 ELSE 10 * Pow10(k - 1)

RECURSIVE DigitsValue(_)
DigitsValue(s) ==
  IF s = <<>> THEN 0
  ELSE 10 * DigitsValue(SubSeq(s, 1, Len(s) - 1)) + DigitVal(s[Len(s)])

(* int(match[0]) on a run matched by \d+ *)
ParseInt(s) == DigitsValue(s)

ValueError == [n |-> 0, d |-> 0]

(* float(match[1]) on a run matched by [\d.]+ : a decimal literal needs at  *)
(* least one digit and at most one '.', otherwise float() raises ValueError *)
ParseFloat(s) ==
  LET dots   == { i \in 1..Len(s) : s[i] = "." }
      digits == SelectSeq(s, LAMBDA c : c # ".")
  IN  IF Cardinality(dots) > 1 \/ digits = <<>> THEN ValueError
      ELSE LET frac == IF dots = {} THEN 0
                       ELSE Len(s) - (CHOOSE i \in dots : TRUE)
           IN  Rat(DigitsValue(digits), Pow10(frac))

ToMilliseconds_Swapped(time_value, unit) ==
  IF unit = "s" THEN RatDiv(time_value, FromInt(1000))
  ELSE IF unit = "us" THEN RatMul(time_value, FromInt(1000))
  ELSE time_value

(* the unit conversion of parse_results *)
ToMilliseconds(time_value, unit) ==
  IF unit = "s" THEN RatMul(time_value, FromInt(1000))
  ELSE IF unit = "us" THEN RatDiv(time_value, FromInt(1000))
  ELSE time_value

----------------------------------------------------------------------------
(* re.findall(pattern, content, re.DOTALL) *)

IsThreadsField(tok) == tok.kind = "threads" /\ tok.digits # <<>>

(* "Execution Time: ([\d.]+)(ms|us|s)" matches at a time field *)
IsTimeField(tok) == tok.kind = "time" /\ tok.digits # <<>> /\ tok.unit \in Units

Min(S) == CHOOSE x \in S : \A y \in S : x <= y

(* The scan resumes at token `from`.  A match starts at the leftmost        *)
(* threads field that has a matching time field anywhere after it ('.*?'    *)
(* with DOTALL crosses any text), and ends at the nearest such time field.  *)
RECURSIVE FindAll(_, _)
FindAll(text, from) ==
  LET starts == { i \in from..Len(text) :
                    /\ IsThreadsField(text[i])
                    /\ \E j \in (i + 1)..Len(text) : IsTimeField(text[j]) }
  IN  IF starts = {} THEN <<>>
      ELSE LET i == Min(starts)
               j == Min({ k \in (i + 1)..Len(text) : IsTimeField(text[k]) })
           IN  << [thread |-> text[i].digits, value |-> text[j].digits,
                   unit |-> text[j].unit, start |-> i, end |-> j] >>
               \o FindAll(text, j + 1)

----------------------------------------------------------------------------
(* Process state *)

None == <<>>

Some(x) == <<x>>

NoException == [type |-> "None", raisedIn |-> "None"]

Raised(type, fn) == [type |-> type, raisedIn |-> fn]

MsgNoResults == "Error: No results found in benchmark_results.txt"

MsgReport == "Generated: PERFORMANCE.md"

MsgNoMatplotlib == "Warning: matplotlib not installed. Skipping graph generation."

MsgGraphsFailed == "Warning: Could not generate graphs"

MsgComplete == "Performance analysis complete!"

Init ==
  /\ content \in Logs
  /\ pc = "start"
  /\ matches = <<>>
  /\ threads = <<>>
  /\ times = <<>>
  /\ speedups = <<>>
  /\ efficiencies = <<>>
  /\ report = None
  /\ perfFile = None
  /\ pngFiles = {}
  /\ stdout = <<>>
  /\ exitStatus = None
  /\ exception = NoException
  /\ calls = {}

(* An exception nothing catches: the interpreter prints the traceback to   *)
(* stderr and the process exits with status 1.                             *)
Uncaught(type, fn) ==
  /\ pc' = "raised"
  /\ exception' = Raised(type, fn)
  /\ exitStatus' = Some(1)

----------------------------------------------------------------------------
(* parse_results('benchmark_results.txt'), called from main *)

ParseResults ==
  /\ pc = "start"
  /\ calls' = calls \cup {"parse_results"}
  /\ LET found  == FindAll(content, 1)
         values == [i \in 1..Len(found) |-> ParseFloat(found[i].value)]
     IN  /\ matches' = found
         /\ IF \E i \in 1..Len(found) : values[i] = ValueError
            THEN /\ Uncaught("ValueError", "parse_results")
                 /\ UNCHANGED <<threads, times>>
            ELSE /\ threads' = [i \in 1..Len(found) |-> ParseInt(found[i].thread)]
                 /\ times' = [i \in 1..Len(found) |->
                                ToMilliseconds(values[i], found[i].unit)]
                 /\ pc' = "parsed"
                 /\ UNCHANGED <<exception, exitStatus>>
  /\ UNCHANGED <<content, speedups, efficiencies, report, perfFile, pngFiles, stdout>>

----------------------------------------------------------------------------
(* main: "if not threads" *)

NoSamplesFound_NoExit ==
  /\ pc = "parsed"
  /\ threads = <<>>
  /\ stdout' = Append(stdout, MsgNoResults)
  /\ pc' = "samples"
  /\ UNCHANGED <<content, matches, threads, times, speedups, efficiencies, report,
                 perfFile, pngFiles, exitStatus, exception, calls>>

NoSamplesFound ==
  /\ pc = "parsed"
  /\ threads = <<>>
  /\ stdout' = Append(stdout, MsgNoResults)
  /\ exitStatus' = Some(1)
  /\ pc' = "exited"
  /\ UNCHANGED <<content, matches, threads, times, speedups, efficiencies, report,
                 perfFile, pngFiles, exception, calls>>

SamplesFound ==
  /\ pc = "parsed"
  /\ threads # <<>>
  /\ pc' = "samples"
  /\ UNCHANGED <<content, matches, threads, times, speedups, efficiencies, report,
                 perfFile, pngFiles, stdout, exitStatus, exception, calls>>

----------------------------------------------------------------------------
(* calculate_speedup(threads, times) *)

IsZero(x) == x.n = 0

CalculateSpeedup ==
  /\ pc = "samples"
  /\ calls' = calls \cup {"calculate_speedup"}
  /\ IF times = <<>> \/ IsZero(times[1])
     THEN /\ speedups' = <<>>
          /\ pc' = "speedups"
          /\ UNCHANGED <<exception, exitStatus>>
     ELSE IF \E i \in 1..Len(times) : IsZero(times[i])
     THEN /\ Uncaught("ZeroDivisionError", "calculate_speedup")
          /\ UNCHANGED speedups
     ELSE /\ speedups' = [i \in 1..Len(times) |-> RatDiv(times[1], times[i])]
          /\ pc' = "speedups"
          /\ UNCHANGED <<exception, exitStatus>>
  /\ UNCHANGED <<content, matches, threads, times, efficiencies, report, perfFile,
                 pngFiles, stdout>>

----------------------------------------------------------------------------
(* calculate_efficiency(threads, speedups) *)

ZipLen(a, b) == IF Len(a) <= Len(b) THEN Len(a) ELSE Len(b)

CalculateEfficiency ==
  /\ pc = "speedups"
  /\ calls' = calls \cup {"calculate_efficiency"}
  /\ LET k == ZipLen(speedups, threads)
     IN  IF \E i \in 1..k : threads[i] = 0
         THEN /\ Uncaught("ZeroDivisionError", "calculate_efficiency")
              /\ UNCHANGED efficiencies
         ELSE /\ efficiencies' =
                   [i \in 1..k |->
                      RatMul(RatDiv(speedups[i], FromInt(threads[i])), FromInt(100))]
              /\ pc' = "efficiencies"
              /\ UNCHANGED <<exception, exitStatus>>
  /\ UNCHANGED <<content, matches, threads, times, speedups, report, perfFile,
                 pngFiles, stdout>>

----------------------------------------------------------------------------
(* generate_report(threads, times, speedups, efficiencies) *)

(* max(speedups); the caller has checked speedups # <<>> *)
MaxOf(xs) ==
  xs[CHOOSE i \in 1..Len(xs) : \A j \in 1..Len(xs) : ~RatLess(xs[i], xs[j])]

(* speedups.index(v): the first position holding v *)
IndexOf(xs, v) == Min({ i \in 1..Len(xs) : xs[i] = v })

OnePointFive == [n |-> 3, d |-> 2]

TwoPointZero == [n |-> 2, d |-> 1]

Narrative_Inclusive(max_speedup) ==
  IF ~RatLess(OnePointFive, max_speedup) THEN "Limited Scaling"
  ELSE IF RatLess(TwoPointZero, max_speedup) THEN "Good Scaling"
  ELSE "Moderate Scaling"

(* the if / elif / else on max_speedup *)
Narrative(max_speedup) ==
  IF RatLess(max_speedup, OnePointFive) THEN "Limited Scaling"
  ELSE IF RatLess(TwoPointZero, max_speedup) THEN "Good Scaling"
  ELSE "Moderate Scaling"

(* The composed document: its table rows hold the values that the f-string *)
(* renders, and `narrative` is the heading of observation 3.               *)
ComposeReport(ths, tms, sps, effs) ==
  LET k   == Min({Len(ths), Len(tms), Len(sps), Len(effs)})
      idx == IndexOf(sps, MaxOf(sps))
  IN  [ rows |-> [i \in 1..k |->
                    [threads |-> ths[i], time |-> tms[i],
                     speedup |-> sps[i], efficiency |-> effs[i]]],
        best_threads |-> ths[idx],
        best_speedup |-> sps[idx],
        baseline |-> tms[1],
        narrative |-> Narrative(sps[idx]) ]

GenerateReport ==
  /\ pc = "efficiencies"
  /\ calls' = calls \cup {"generate_report"}
  /\ IF speedups = <<>>
     THEN /\ Uncaught("ValueError", "generate_report")
          /\ UNCHANGED report
     ELSE /\ report' = Some(ComposeReport(threads, times, speedups, efficiencies))
          /\ pc' = "composed"
          /\ UNCHANGED <<exception, exitStatus>>
  /\ UNCHANGED <<content, matches, threads, times, speedups, efficiencies, perfFile,
                 pngFiles, stdout>>

----------------------------------------------------------------------------
(* main: write PERFORMANCE.md *)

WriteReport ==
  /\ pc = "composed"
  /\ perfFile' = report
  /\ stdout' = Append(stdout, MsgReport)
  /\ pc' = "written"
  /\ UNCHANGED <<content, matches, threads, times, speedups, efficiencies, report,
                 pngFiles, exitStatus, exception, calls>>

----------------------------------------------------------------------------
(* main: try: generate_graphs(...) except Exception *)

(* What the plotting library can do: be missing (ImportError at the import), *)
(* raise while drawing the first or the second chart, or draw both.          *)
RenderOutcomes == {"ok", "unavailable", "fails_first", "fails_second"}

GraphsStep_Uncaught(outcome) ==
  /\ pngFiles' = CASE outcome = "ok" -> {"execution_time.png", "speedup.png"}
                   [] outcome = "fails_second" -> {"execution_time.png"}
                   [] OTHER -> {}
  /\ stdout' = stdout \o
       CASE outcome = "ok" -> <<"Generated: execution_time.png", "Generated: speedup.png">>
         [] outcome = "fails_second" -> <<"Generated: execution_time.png">>
         [] outcome = "fails_first" -> <<>>
         [] OTHER -> <<MsgNoMatplotlib>>
  /\ IF outcome \in {"fails_first", "fails_second"}
     THEN Uncaught("Exception", "generate_graphs")
     ELSE pc' = "rendered" /\ UNCHANGED <<exception, exitStatus>>

GraphsStep(outcome) ==
  /\ pngFiles' = CASE outcome = "ok" -> {"execution_time.png", "speedup.png"}
                   [] outcome = "fails_second" -> {"execution_time.png"}
                   [] OTHER -> {}
  /\ stdout' = stdout \o
       CASE outcome = "ok" -> <<"Generated: execution_time.png", "Generated: speedup.png">>
         [] outcome = "fails_second" -> <<"Generated: execution_time.png", MsgGraphsFailed>>
         [] outcome = "fails_first" -> <<MsgGraphsFailed>>
         [] OTHER -> <<MsgNoMatplotlib>>
  /\ pc' = "rendered"
  /\ UNCHANGED <<exception, exitStatus>>

GenerateGraphs ==
  /\ pc = "written"
  /\ calls' = calls \cup {"generate_graphs"}
  /\ \E outcome \in RenderOutcomes : GraphsStep(outcome)
  /\ UNCHANGED <<content, matches, threads, times, speedups, efficiencies, report,
                 perfFile>>

----------------------------------------------------------------------------
(* main: the last print, then the interpreter exits with status 0 *)

Complete ==
  /\ pc = "rendered"
  /\ stdout' = Append(stdout, MsgComplete)
  /\ exitStatus' = Some(0)
  /\ pc' = "done"
  /\ UNCHANGED <<content, matches, threads, times, speedups, efficiencies, report,
                 perfFile, pngFiles, exception, calls>>

----------------------------------------------------------------------------

Next ==
  \/ ParseResults
  \/ NoSamplesFound
  \/ SamplesFound
  \/ CalculateSpeedup
  \/ CalculateEfficiency
  \/ GenerateReport
  \/ WriteReport
  \/ GenerateGraphs
  \/ Complete

Spec == Init /\ [][Next]_vars

Terminated == pc \in {"exited", "raised", "done"}

----------------------------------------------------------------------------
(* Vocabulary of the properties *)

Range(f) == { f[i] : i \in DOMAIN f }

(* No thread-count field of the log is followed by a time field with a unit *)
NoRecordMatches ==
  ~ \E i \in 1..Len(content), j \in 1..Len(content) :
      i < j /\ IsThreadsField(content[i]) /\ IsTimeField(content[j])

ParseReturned == pc # "start" /\ exception.raisedIn # "parse_results"

(* At least one sample, every time non-zero, every thread count positive *)
ValidSamples ==
  /\ ParseReturned
  /\ threads # <<>>
  /\ \A i \in 1..Len(times) : ~IsZero(times[i])
  /\ \A i \in 1..Len(threads) : threads[i] >= 1

(* The scanner the records are defined by: a thread-count field, then the   *)
(* nearest time field with a unit that comes before the next thread-count   *)
(* field.  A thread-count field without one is text between records.        *)
RECURSIVE RecordsFrom(_, _)
RecordsFrom(text, from) ==
  LET ths == { i \in from..Len(text) : IsThreadsField(text[i]) }
  IN  IF ths = {} THEN <<>>
      ELSE LET i    == Min(ths)
               nxt  == Min({ k \in (i + 1)..Len(text) : IsThreadsField(text[k]) }
                           \cup {Len(text) + 1})
               tms  == { j \in (i + 1)..(nxt - 1) : IsTimeField(text[j]) }
           IN  IF tms = {} THEN RecordsFrom(text, nxt)
               ELSE << [thread |-> text[i].digits, value |-> text[Min(tms)].digits,
                        unit |-> text[Min(tms)].unit] >>
                    \o RecordsFrom(text, Min(tms) + 1)

(* ms back to the unit of the record, by the inverse factor *)
FromMilliseconds(time_ms, unit) ==
  IF unit = "s" THEN RatDiv(time_ms, FromInt(1000))
  ELSE IF unit = "us" THEN RatMul(time_ms, FromInt(1000))
  ELSE time_ms

----------------------------------------------------------------------------
(* C1: when no record of the log matches, the run can only end in the       *)
(* NoSamplesFound outcome: the error message is printed, the exit status is *)
(* 1, no function but parse_results is ever called, and no report is        *)
(* composed or written.                                                     *)
C1_NoSamplesFound ==
  (pc # "start" /\ NoRecordMatches) =>
    /\ pc \in {"parsed", "exited"}
    /\ calls = {"parse_results"}
    /\ report = None
    /\ perfFile = None
    /\ pc = "parsed" => ENABLED NoSamplesFound
    /\ Terminated =>
         /\ pc = "exited"
         /\ exitStatus = Some(1)
         /\ stdout = <<MsgNoResults>>
         /\ exception = NoException

C1_Witness ==
  /\ pc = "exited"
  /\ \E i \in 1..Len(content) : IsThreadsField(content[i])
  /\ stdout = <<MsgNoResults>>

(* C2: when the first sample's time is zero, the run ends as in the         *)
(* empty-sample case: generate_report is not run, no report is written, the *)
(* NoSamplesFound message and exit, and no unhandled exception.             *)
C2_ZeroBaselineReported ==
  (Terminated /\ ParseReturned /\ threads # <<>> /\ IsZero(times[1])) =>
    /\ pc = "exited"
    /\ exception = NoException
    /\ "generate_report" \notin calls
    /\ perfFile = None
    /\ MsgNoResults \in Range(stdout)

(* C3: every sample pairs a thread count with the time field of its own     *)
(* record: no other thread-count field lies between the two.                *)
C3_NoPairingAcrossRecords ==
  pc = "parsed" =>
    \A k \in 1..Len(matches) :
      \A m \in (matches[k].start + 1)..(matches[k].end - 1) :
        ~IsThreadsField(content[m])

(* C4: the samples returned are exactly the well-formed records of the log, *)
(* in order, whatever text lies between them.                               *)
C4_SamplesAreTheRecords ==
  pc = "parsed" =>
    LET recs == RecordsFrom(content, 1)
    IN  /\ Len(threads) = Len(recs)
        /\ Len(times) = Len(recs)
        /\ \A k \in 1..Len(recs) :
             /\ threads[k] = ParseInt(recs[k].thread)
             /\ times[k] = ToMilliseconds(ParseFloat(recs[k].value), recs[k].unit)

(* C5: parse_results never raises: a record with a malformed number is      *)
(* skipped, and parse_results returns.                                      *)
C5_MalformedNumberSkipped ==
  pc # "start" => exception.raisedIn # "parse_results"

(* C6: calculate_speedup never divides by zero; it returns the empty result *)
(* exactly when there is no sample or the first time is zero, and otherwise *)
(* one speedup per sample, from which come as many efficiencies.            *)
C6_SpeedupTotal ==
  "calculate_speedup" \in calls =>
    /\ exception # Raised("ZeroDivisionError", "calculate_speedup")
    /\ (speedups = <<>>) <=> (times = <<>> \/ IsZero(times[1]))
    /\ speedups # <<>> => Len(speedups) = Len(times)
    /\ pc = "efficiencies" => Len(efficiencies) = Len(speedups)

(* C7: the report has exactly one of the three narratives: Limited Scaling  *)
(* iff every speedup is below 1.5, Good Scaling iff some speedup is above   *)
(* 2.0, Moderate Scaling otherwise (so at a maximum of 1.5 and of 2.0).     *)
C7_NarrativeBranch ==
  report # None =>
    LET r        == report[1]
        below(x) == 2 * x.n < 3 * x.d
        above(x) == x.n > 2 * x.d
        limited  == \A i \in 1..Len(speedups) : below(speedups[i])
        good     == \E i \in 1..Len(speedups) : above(speedups[i])
    IN  /\ r.narrative \in {"Limited Scaling", "Good Scaling", "Moderate Scaling"}
        /\ r.narrative = "Limited Scaling" <=> limited
        /\ r.narrative = "Good Scaling" <=> good
        /\ r.narrative = "Moderate Scaling" <=> (~limited /\ ~good)
        /\ \A i \in 1..Len(speedups) : ~RatLess(r.best_speedup, speedups[i])

C7_Witness ==
  /\ report # None
  /\ report[1].narrative = "Moderate Scaling"
  /\ report[1].best_speedup = OnePointFive
  /\ report[1].best_threads = 2

(* C8: a run with valid samples writes the composed report before charts    *)
(* are attempted; whatever the rendering does, the next step is the normal  *)
(* completion with exit status 0, and the written report never changes.     *)
C8_RenderingIsolated ==
  /\ [] /\ "generate_graphs" \in calls => (perfFile # None /\ perfFile = report)
        /\ (Terminated /\ ValidSamples) =>
             /\ pc = "done"
             /\ exitStatus = Some(0)
             /\ perfFile # None
             /\ stdout[Len(stdout)] = MsgComplete
  /\ [][ /\ pc = "written" => (pc' = "rendered" /\ exception' = NoException)
         /\ pc = "rendered" => pc' = "done"
         /\ perfFile # None => perfFile' = perfFile ]_vars

C8_Witness ==
  /\ pc = "done"
  /\ perfFile # None
  /\ MsgGraphsFailed \in Range(stdout)
  /\ pngFiles = {}

C10_ThreadCountPositive ==
  ParseReturned =>
    /\ \A i \in 1..Len(threads) : threads[i] >= 1
    /\ exception # Raised("ZeroDivisionError", "calculate_efficiency")

====
